---- MODULE Spec2Model ----
(***************************************************************************)
(* Model of app/main.py of WLAN Share: the startup election (subnet scan,  *)
(* hosting / client branch, readiness wait, mDNS advertisement) and the    *)
(* hand-over to the presentation layer.                                    *)
(*                                                                         *)
(* Strings are sequences of one-character strings, so that the address     *)
(* arithmetic of scan_network_for_server (split, int, f-string) is         *)
(* computed the way the code computes it.  Time is counted in ticks: one   *)
(* tick is the least time a failed connection attempt plus its sleep takes.*)
(***************************************************************************)
EXTENDS Integers, Sequences, FiniteSets, TLC

\* ------------------------------------------------------------------ bounds
\* the explicit close() calls made on one registration
MaxCloseCalls == 3
\* the requests served to the file routes
MaxRequests == 2
\* ticks that the timeout=8.0 of the two wait_for_port calls lasts
WaitTicks == 2
\* the most ticks one failed attempt (connect up to 0.3s + sleep 0.15s) takes
MaxAttemptTicks == 2

\* ------------------------------------------------------- program constants
PORT == 8000
ScanTimeout == 1
DefaultProbeTimeout == 2
ProbeStatusOk == 200

\* HOST = "0.0.0.0"
HOST == <<"0", ".", "0", ".", "0", ".", "0">>
\* the loopback literal "127.0.0.1" of get_local_ip / __main__
Loopback == <<"1", "2", "7", ".", "0", ".", "0", ".", "1">>

candidates ==
  <<1, 2, 100, 101, 102, 103, 104, 105, 50, 51, 52, 53, 54, 55,
    60, 61, 62, 63, 64, 65, 66, 67, 68, 69, 70>>

\* ------------------------------------------------------------ environment
\* the first three octets of the subnet this machine and its peers are on
SubnetPrefix == <<192, 168, 1>>
\* last octets this machine may have
OwnOctets == {1, 7, 70}
\* last octets at which a host of this program may already be serving
ServerOctets == {1, 50, 70, 200}

\* ------------------------------------------------------- string functions
Digits == <<"0", "1", "2", "3", "4", "5", "6", "7", "8", "9">>

DigitVal(c) == CHOOSE d \in 0..9 : Digits[d + 1] = c

\* str(n) / f"{n}" of a non-negative integer
RECURSIVE str(_)
str(n) == IF n < 10 THEN <<Digits[n + 1]>>
          ELSE str(n \div 10) \o <<Digits[(n % 10) + 1]>>

\* int(s) of a string of decimal digits
RECURSIVE int(_)
int(s) == IF Len(s) = 1 THEN DigitVal(s[1])
          ELSE 10 * int(SubSeq(s, 1, Len(s) - 1)) + DigitVal(s[Len(s)])

\* s.split('.')
RECURSIVE split(_)
split(s) ==
  IF \A i \in 1..Len(s) : s[i] # "." THEN <<s>>
  ELSE LET k == CHOOSE i \in 1..Len(s) :
                  s[i] = "." /\ \A j \in 1..(i - 1) : s[j] # "."
       IN <<SubSeq(s, 1, k - 1)>> \o split(SubSeq(s, k + 1, Len(s)))

\* '.'.join(parts)
RECURSIVE join(_)
join(parts) ==
  IF Len(parts) = 0 THEN <<>>
  ELSE IF Len(parts) = 1 THEN parts[1]
  ELSE parts[1] \o <<".">> \o join(Tail(parts))

\* the dotted-quad text the socket layer reports for an address
IpText(octets) == join([i \in 1..Len(octets) |-> str(octets[i])])

\* ------------------------------------------------------------ data model
None == [tag |-> "None"]

MdnsService(name, host, port) ==
  [tag |-> "MdnsService", name |-> name, host |-> host, port |-> port]

MdnsRegistration(zeroconf, info) ==
  [tag |-> "MdnsRegistration", zeroconf |-> zeroconf, info |-> info]

\* f"http://{host}:{port}/"
Url(host, port) == <<"h", "t", "t", "p", ":", "/", "/">> \o host \o <<":">>
                   \o str(port) \o <<"/">>

\* ------------------------------------------------------------------ state
VARIABLES
  zeroconf_available, \* whether the zeroconf import succeeded (Zeroconf is not None)
  servers,            \* last octets of the subnet hosts that answer GET /status with 200
  pc,                 \* position of the __main__ script
  scan_local_ip,      \* local_ip of scan_network_for_server
  prefix,             \* prefix of scan_network_for_server
  own_last_octet,     \* own_last_octet of scan_network_for_server, -1 before it is bound
  idx,                \* position of the scan loop in candidates
  probes,             \* the try_direct_connection calls made so far, in order
  discovered,
  is_hosting,
  target_host,
  target_port,
  target_url,
  network_url,
  mdns_registration,
  server_thread,
  clipboard_thread,
  ready,
  elapsed,            \* ticks since the running wait_for_port call computed `end`
  grace_slept,        \* whether time.sleep(0.8) ran after a failed wait
  local_ip,           \* local_ip of the hosting branch
  zeroconfs,          \* the Zeroconf sessions opened so far, each with its state
  atexit_handlers,    \* callables given to atexit.register
  ui,                 \* the presentation backend that took over
  exit_cause,         \* how the process ended, "none" while it runs
  \* MdnsRegistration.close
  close_faults,       \* which calls of the registration's Zeroconf session raise
  close_calls,        \* the close() calls that have returned
  close_raised,       \* whether a close() call raised to its caller
  after_first_close,  \* the sessions as the first close() call left them
  \* try_direct_connection
  probe_call,         \* the arguments of a call and what the network does with it
  probe_result,       \* how the call ended
  \* discover_existing_service
  advertised,         \* the service records that hosts on the network advertise
  announced,          \* the names for which the browser has called add_service
  found,
  event,              \* whether the threading.Event is set
  browser,            \* "none", "started", "cancelled", or "stopped" by the session
  timed_out,          \* whether event.wait returned because the timeout elapsed
  resolved,           \* the records the listener resolved, in order, each with
                      \* whether it came after the timeout had elapsed
  d_result,           \* what discover_existing_service returned
  \* the file routes
  platform,           \* "posix" or "nt": the path rules of the machine
  fs,                 \* the regular files: path |-> bytes
  http_request,       \* the last request served
  http_response,      \* its response
  stored,             \* reported name |-> bytes of its last successful upload, until
                      \* another upload or a delete of that name
  n_requests

vars == <<zeroconf_available, servers, pc, scan_local_ip, prefix, own_last_octet,
          idx, probes, discovered,
          is_hosting, target_host, target_port, target_url, network_url,
          mdns_registration, server_thread, clipboard_thread, ready, elapsed,
          grace_slept, local_ip, zeroconfs, atexit_handlers, ui, exit_cause,
          close_faults, close_calls, close_raised, after_first_close,
          probe_call, probe_result, advertised, announced, found, event, browser,
          timed_out, resolved, d_result, platform, fs, http_request, http_response,
          stored, n_requests>>

envVars == <<zeroconf_available, servers>>
scanVars == <<scan_local_ip, prefix, own_last_octet, idx, probes, discovered>>
electVars == <<is_hosting, target_host, target_port, target_url>>
hostVars == <<mdns_registration, server_thread, clipboard_thread, local_ip,
              zeroconfs, atexit_handlers>>
waitVars == <<ready, elapsed, grace_slept>>
closeVars == <<close_faults, close_calls, close_raised, after_first_close>>
\* the state of the components that the startup script does not touch
probeVars == <<probe_call, probe_result>>
discoverVars == <<advertised, announced, found, event, browser, timed_out, resolved,
                  d_result>>
fileVars == <<platform, fs, http_request, http_response, stored, n_requests>>
otherVars == <<closeVars, probeVars, discoverVars, fileVars>>

\* a name of the script that is not bound yet / the two Python booleans
Unbound == "Unbound"
True == "True"
False == "False"
bool(b) == IF b THEN True ELSE False

\* ------------------------------------------------------ get_local_ip
\* what the UDP socket of get_local_ip does: raise, or report a local endpoint
SocketOutcomes ==
  {[raises |-> TRUE, sockname |-> <<>>]}
  \cup {[raises |-> FALSE, sockname |-> IpText(SubnetPrefix \o <<o>>)] : o \in OwnOctets}
  \cup {[raises |-> FALSE, sockname |-> Loopback]}

get_local_ip(sock, fallback) == IF sock.raises THEN fallback ELSE sock.sockname

\* ------------------------------------------------------ try_direct_connection
ServerAddress(o) == IpText(SubnetPrefix \o <<o>>)

\* what urlopen(http://host:port/status) can do
UrlopenOutcomes(host, port) ==
  IF port = PORT /\ \E o \in servers : host = ServerAddress(o)
  THEN {[raises |-> FALSE, status |-> 200]}
  ELSE {[raises |-> TRUE, status |-> 0],       \* refused, timeout, HTTPError
        [raises |-> FALSE, status |-> 204]}     \* a foreign service, no 200

\* the probe taking any response that urlopen returns for a success
try_direct_connection_AnyResponse(response) == ~response.raises

try_direct_connection(response) ==
  IF response.raises THEN FALSE ELSE response.status = ProbeStatusOk

\* ------------------------------------------------------ scan_network_for_server
\* the scan without its loopback return
IsLoopback_Never(ip) == FALSE

IsLoopback(ip) == ip = Loopback

parts_of(ip) == split(ip)
prefix_of(ip) == join(SubSeq(parts_of(ip), 1, 3)) \o <<".">>
own_last_octet_of(ip) == int(parts_of(ip)[4])

\* the scan without its own-address skip
SkipCandidate_Never(last_octet, own) == FALSE

SkipCandidate(last_octet, own) == last_octet = own

\* lines 160-169: the address lookup and the two early returns
ScanStart ==
  /\ pc = "start"
  /\ \E sock \in SocketOutcomes :
       LET ip == get_local_ip(sock, Loopback) IN
       /\ scan_local_ip' = ip
       /\ IF IsLoopback(ip) \/ Len(parts_of(ip)) # 4
          THEN /\ discovered' = None
               /\ pc' = "elect"
               /\ UNCHANGED <<prefix, own_last_octet, idx>>
          ELSE /\ prefix' = prefix_of(ip)
               /\ own_last_octet' = own_last_octet_of(ip)
               /\ discovered' = discovered
               /\ pc' = "scan"
               /\ idx' = 1
  /\ UNCHANGED <<envVars, exit_cause, otherVars, probes, electVars, network_url, hostVars, waitVars, ui>>

\* lines 176-178: a candidate equal to the own last octet is passed over
ScanSkip ==
  /\ pc = "scan"
  /\ idx <= Len(candidates)
  /\ SkipCandidate(candidates[idx], own_last_octet)
  /\ idx' = idx + 1
  /\ UNCHANGED <<envVars, exit_cause, otherVars, pc, scan_local_ip, prefix, own_last_octet, probes,
                 discovered, electVars, network_url, hostVars, waitVars, ui>>

\* the scan going on after a success, so that the last answer wins
ScanProbe_LastWins ==
  /\ pc = "scan"
  /\ idx <= Len(candidates)
  /\ ~SkipCandidate(candidates[idx], own_last_octet)
  /\ LET host == prefix \o str(candidates[idx]) IN
     /\ probes' = Append(probes, [host |-> host, port |-> PORT, timeout |-> ScanTimeout])
     /\ \E response \in UrlopenOutcomes(host, PORT) :
          /\ discovered' = IF try_direct_connection(response)
                           THEN MdnsService("WLAN Share (scanned)", host, PORT)
                           ELSE discovered
          /\ pc' = IF idx = Len(candidates) /\ discovered'.tag # "None"
                   THEN "elect" ELSE pc
          /\ idx' = idx + 1
  /\ UNCHANGED <<envVars, exit_cause, otherVars, scan_local_ip, prefix, own_last_octet,
                 electVars, network_url, hostVars, waitVars, ui>>

\* lines 179-182: one probe; a success ends the scan with its record
ScanProbe ==
  /\ pc = "scan"
  /\ idx <= Len(candidates)
  /\ ~SkipCandidate(candidates[idx], own_last_octet)
  /\ LET host == prefix \o str(candidates[idx]) IN
     /\ probes' = Append(probes, [host |-> host, port |-> PORT, timeout |-> ScanTimeout])
     /\ \E response \in UrlopenOutcomes(host, PORT) :
          IF try_direct_connection(response)
          THEN /\ discovered' = MdnsService("WLAN Share (scanned)", host, PORT)
               /\ pc' = "elect"
               /\ idx' = idx
          ELSE /\ discovered' = discovered
               /\ pc' = pc
               /\ idx' = idx + 1
  /\ UNCHANGED <<envVars, exit_cause, otherVars, scan_local_ip, prefix, own_last_octet, electVars,
                 network_url, hostVars, waitVars, ui>>

\* lines 184-185: the list is exhausted
ScanExhausted ==
  /\ pc = "scan"
  /\ idx > Len(candidates)
  /\ discovered' = None
  /\ pc' = "elect"
  /\ UNCHANGED <<envVars, exit_cause, otherVars, scan_local_ip, prefix, own_last_octet, idx, probes,
                 electVars, network_url, hostVars, waitVars, ui>>

\* ------------------------------------------------------ __main__, lines 369-376
Elect ==
  /\ pc = "elect"
  /\ LET hosting == discovered.tag = "None" IN
     /\ is_hosting' = bool(hosting)
     /\ target_host' = IF hosting THEN Loopback ELSE discovered.host
     /\ target_port' = IF hosting THEN PORT ELSE discovered.port
     /\ target_url' = Url(target_host', target_port')
  /\ network_url' = <<>>
  /\ mdns_registration' = None
  /\ server_thread' = None
  /\ pc' = "branch"
  /\ UNCHANGED <<envVars, exit_cause, otherVars, scanVars, clipboard_thread, local_ip, zeroconfs,
                 atexit_handlers, waitVars, ui>>

\* the hosting branch with the server bound to the loopback interface only
HostStart_BindsLoopback ==
  /\ pc = "branch"
  /\ is_hosting = True
  /\ clipboard_thread' = [tag |-> "Thread", target |-> "monitor_clipboard"]
  /\ server_thread' = [tag |-> "Thread", target |-> "run_server",
                       host |-> Loopback, port |-> PORT]
  /\ elapsed' = 0
  /\ pc' = "wait"
  /\ UNCHANGED <<envVars, exit_cause, otherVars, scanVars, electVars, network_url, mdns_registration,
                 local_ip, zeroconfs, atexit_handlers, ready, grace_slept, ui>>

\* the hosting branch publishing its record as it starts the server thread
HostStart_PublishesFirst ==
  /\ pc = "branch"
  /\ is_hosting = True
  /\ clipboard_thread' = [tag |-> "Thread", target |-> "monitor_clipboard"]
  /\ server_thread' = [tag |-> "Thread", target |-> "run_server",
                       host |-> HOST, port |-> PORT]
  /\ zeroconfs' = Append(zeroconfs, [state |-> "open",
                           services |-> {[name |-> "123toMe-pc", address |-> Loopback,
                                          port |-> PORT, path |-> "/"]}])
  /\ mdns_registration' = [tag |-> "MdnsRegistration", zeroconf |-> Len(zeroconfs'),
                           info |-> [name |-> "123toMe-pc", address |-> Loopback,
                                     port |-> PORT, path |-> "/"]]
  /\ elapsed' = 0
  /\ pc' = "wait"
  /\ UNCHANGED <<envVars, exit_cause, otherVars, scanVars, electVars, network_url,
                 local_ip, atexit_handlers, ready, grace_slept, ui>>

\* lines 378-390: the hosting branch up to the call of wait_for_port
HostStart ==
  /\ pc = "branch"
  /\ is_hosting = True
  /\ clipboard_thread' = [tag |-> "Thread", target |-> "monitor_clipboard"]
  /\ server_thread' = [tag |-> "Thread", target |-> "run_server",
                       host |-> HOST, port |-> PORT]
  /\ elapsed' = 0
  /\ pc' = "wait"
  /\ UNCHANGED <<envVars, exit_cause, otherVars, scanVars, electVars, network_url, mdns_registration,
                 local_ip, zeroconfs, atexit_handlers, ready, grace_slept, ui>>

\* the client branch with the server start moved out of the hosting branch
ClientStart_StartsServer ==
  /\ pc = "branch"
  /\ is_hosting = False
  /\ server_thread' = [tag |-> "Thread", target |-> "run_server",
                       host |-> HOST, port |-> PORT]
  /\ elapsed' = 0
  /\ pc' = "wait"
  /\ UNCHANGED <<envVars, exit_cause, otherVars, scanVars, electVars, network_url, mdns_registration,
                 clipboard_thread, local_ip, zeroconfs, atexit_handlers, ready,
                 grace_slept, ui>>

\* lines 399-400: the client branch up to the call of wait_for_port
ClientStart ==
  /\ pc = "branch"
  /\ is_hosting = False
  /\ elapsed' = 0
  /\ pc' = "wait"
  /\ UNCHANGED <<envVars, exit_cause, otherVars, scanVars, electVars, network_url, hostVars, ready,
                 grace_slept, ui>>

\* ------------------------------------------------------ wait_for_port
\* lines 21-28: one turn of the loop: a connection ends the wait, an OSError
\* costs the attempt and the sleep
WaitAttempt ==
  /\ pc = "wait"
  /\ elapsed < WaitTicks
  /\ \E connected \in BOOLEAN, d \in 1..MaxAttemptTicks :
       IF connected
       THEN /\ ready' = True
            /\ pc' = "waited"
            /\ elapsed' = elapsed
       ELSE /\ ready' = ready
            /\ pc' = pc
            /\ elapsed' = elapsed + d
  /\ UNCHANGED <<envVars, exit_cause, otherVars, scanVars, electVars, network_url, hostVars, grace_slept, ui>>

\* the deadline return without the caller's grace period
WaitDeadline_NoGrace ==
  /\ pc = "wait"
  /\ elapsed >= WaitTicks
  /\ ready' = False
  /\ pc' = "waited"
  /\ UNCHANGED <<envVars, exit_cause, otherVars, scanVars, electVars, network_url, hostVars, elapsed,
                 grace_slept, ui>>

\* line 29: the deadline has passed
WaitDeadline ==
  /\ pc = "wait"
  /\ elapsed >= WaitTicks
  /\ ready' = False
  /\ pc' = "grace"
  /\ UNCHANGED <<envVars, exit_cause, otherVars, scanVars, electVars, network_url, hostVars, elapsed,
                 grace_slept, ui>>

\* a caller that waits again after the grace period until the port answers
Grace_Retries ==
  /\ pc = "grace"
  /\ grace_slept' = TRUE
  /\ elapsed' = 0
  /\ pc' = "wait"
  /\ UNCHANGED <<envVars, exit_cause, otherVars, scanVars, electVars, network_url, hostVars, ready, ui>>

\* lines 391-392 and 401-402: if not ready: time.sleep(0.8)
Grace ==
  /\ pc = "grace"
  /\ grace_slept' = TRUE
  /\ pc' = "waited"
  /\ UNCHANGED <<envVars, exit_cause, otherVars, scanVars, electVars, network_url, hostVars, ready, elapsed, ui>>

\* ------------------------------------------------------ register_mdns_service
Hostname == "pc"
\* the step of register_mdns_service that raises, if any
RegisterFaults == {"none", "Zeroconf", "ServiceInfo", "register_service"}

\* socket.inet_aton accepts one to four dot-separated decimal numbers
inet_aton_ok(ip) ==
  /\ Len(ip) > 0
  /\ \A i \in 1..Len(ip) : ip[i] \in {"0", "1", "2", "3", "4", "5", "6", "7", "8", "9", "."}
  /\ ip[1] # "." /\ ip[Len(ip)] # "."
  /\ \A i \in 1..(Len(ip) - 1) : ~(ip[i] = "." /\ ip[i + 1] = ".")
  /\ Cardinality({i \in 1..Len(ip) : ip[i] = "."}) <= 3

ServiceInfo(port, ip) ==
  [name |-> "123toMe-" \o Hostname, address |-> ip, port |-> port, path |-> "/"]

\* register_mdns_service with a failed publication passed off as a registration
register_mdns_service_Swallows(port, ip, fault, zcs) ==
  IF ~zeroconf_available THEN [result |-> None, zeroconfs |-> zcs]
  ELSE IF fault = "Zeroconf" THEN [result |-> None, zeroconfs |-> zcs]
  ELSE LET opened == Append(zcs, [state |-> "open", services |-> {}])
           h == Len(opened)
       IN IF ~inet_aton_ok(ip) \/ fault = "ServiceInfo"
          THEN [result |-> None, zeroconfs |-> opened]
          ELSE IF fault = "register_service"
          THEN [result |-> MdnsRegistration(h, ServiceInfo(port, ip)),
                zeroconfs |-> opened]
          ELSE [result |-> MdnsRegistration(h, ServiceInfo(port, ip)),
                zeroconfs |-> [opened EXCEPT ![h].services = {ServiceInfo(port, ip)}]]

\* the result and the sessions after the call, given the sessions before it
register_mdns_service(port, ip, fault, zcs) ==
  IF ~zeroconf_available THEN [result |-> None, zeroconfs |-> zcs]
  ELSE IF fault = "Zeroconf" THEN [result |-> None, zeroconfs |-> zcs]
  ELSE LET opened == Append(zcs, [state |-> "open", services |-> {}])
           h == Len(opened)
       IN IF ~inet_aton_ok(ip) \/ fault \in {"ServiceInfo", "register_service"}
          THEN [result |-> None, zeroconfs |-> opened]
          ELSE [result |-> MdnsRegistration(h, ServiceInfo(port, ip)),
                zeroconfs |-> [opened EXCEPT ![h].services = {ServiceInfo(port, ip)}]]

\* the hosting branch giving up its server when advertise returns none
Advertise_StopsServer ==
  /\ pc = "waited"
  /\ is_hosting = True
  /\ \E sock \in SocketOutcomes, fault \in RegisterFaults :
       LET ip == get_local_ip(sock, Loopback)
           r == register_mdns_service(PORT, ip, fault, zeroconfs)
       IN /\ local_ip' = ip
          /\ network_url' = Url(ip, PORT)
          /\ mdns_registration' = r.result
          /\ zeroconfs' = r.zeroconfs
          /\ atexit_handlers' = IF r.result.tag # "None"
                                THEN Append(atexit_handlers, "mdns_registration.close")
                                ELSE atexit_handlers
          /\ server_thread' = IF r.result.tag # "None" THEN server_thread ELSE None
  /\ pc' = "present"
  /\ UNCHANGED <<envVars, exit_cause, otherVars, scanVars, electVars, clipboard_thread, waitVars, ui>>

\* the hosting branch without the atexit registration of close
Advertise_NoAtexit ==
  /\ pc = "waited"
  /\ is_hosting = True
  /\ \E sock \in SocketOutcomes, fault \in RegisterFaults :
       LET ip == get_local_ip(sock, Loopback)
           r == register_mdns_service(PORT, ip, fault, zeroconfs)
       IN /\ local_ip' = ip
          /\ network_url' = Url(ip, PORT)
          /\ mdns_registration' = r.result
          /\ zeroconfs' = r.zeroconfs
  /\ pc' = "present"
  /\ UNCHANGED <<envVars, exit_cause, otherVars, scanVars, electVars, server_thread,
                 clipboard_thread, atexit_handlers, waitVars, ui>>

\* lines 393-397: the rest of the hosting branch
Advertise ==
  /\ pc = "waited"
  /\ is_hosting = True
  /\ \E sock \in SocketOutcomes, fault \in RegisterFaults :
       LET ip == get_local_ip(sock, Loopback)
           r == register_mdns_service(PORT, ip, fault, zeroconfs)
       IN /\ local_ip' = ip
          /\ network_url' = Url(ip, PORT)
          /\ mdns_registration' = r.result
          /\ zeroconfs' = r.zeroconfs
          /\ atexit_handlers' = IF r.result.tag # "None"
                                THEN Append(atexit_handlers, "mdns_registration.close")
                                ELSE atexit_handlers
  /\ pc' = "present"
  /\ UNCHANGED <<envVars, exit_cause, otherVars, scanVars, electVars, server_thread, clipboard_thread,
                 waitVars, ui>>

\* the client branch resolving its target again from the local address
ClientFinish_Reresolves ==
  /\ pc = "waited"
  /\ is_hosting = False
  /\ \E sock \in SocketOutcomes :
       /\ target_host' = get_local_ip(sock, Loopback)
       /\ target_url' = Url(target_host', target_port)
       /\ network_url' = target_url'
  /\ pc' = "present"
  /\ UNCHANGED <<envVars, exit_cause, otherVars, scanVars, is_hosting, target_port, hostVars, waitVars, ui>>

\* line 403: the rest of the client branch
ClientFinish ==
  /\ pc = "waited"
  /\ is_hosting = False
  /\ network_url' = target_url
  /\ pc' = "present"
  /\ UNCHANGED <<envVars, exit_cause, otherVars, scanVars, electVars, hostVars, waitVars, ui>>

\* lines 405-598: one of the three presentation backends takes over
UiBackends == {"PyQt5", "tkinter", "webbrowser"}

Present ==
  /\ pc = "present"
  /\ \E b \in UiBackends : ui' = b
  /\ pc' = "ui"
  /\ UNCHANGED <<envVars, exit_cause, otherVars, scanVars, electVars, network_url, hostVars, waitVars>>

\* ------------------------------------------------------ MdnsRegistration.close
\* how the two calls of close() into a Zeroconf session can fail: unregister_service
\* raises or not; close() works, raises before it shut the session down, or raises
\* after it did
CloseFaults ==
  [unregister : BOOLEAN, close : {"ok", "raises_open", "raises_closed"}]

Healthy == [unregister |-> FALSE, close |-> "ok"]

\* zeroconf.unregister_service(info) on session h: raises on a closed session
unregister_service(h, info, faults) ==
  IF h.state = "closed" \/ faults.unregister
  THEN [raises |-> TRUE, handle |-> h]
  ELSE [raises |-> FALSE, handle |-> [h EXCEPT !.services = h.services \ {info}]]

\* zeroconf.close() on session h: nothing to do on a closed session; otherwise it
\* withdraws every service and shuts the session down
zeroconf_close(h, faults) ==
  IF h.state = "closed" THEN [raises |-> FALSE, handle |-> h]
  ELSE IF faults.close = "raises_open" THEN [raises |-> TRUE, handle |-> h]
  ELSE [raises |-> faults.close = "raises_closed",
        handle |-> [state |-> "closed", services |-> {}]]

\* close() with the unregistration outside its suppress block
close_NoSuppress(reg, zcs, faults) ==
  LET u == unregister_service(zcs[reg.zeroconf], reg.info, faults)
      c == zeroconf_close(u.handle, faults)
  IN IF u.raises THEN [raised |-> TRUE, zeroconfs |-> zcs]
     ELSE [raised |-> FALSE, zeroconfs |-> [zcs EXCEPT ![reg.zeroconf] = c.handle]]

\* lines 74-78: both calls run, each with its exceptions suppressed
close(reg, zcs, faults) ==
  LET u == unregister_service(zcs[reg.zeroconf], reg.info, faults)
      c == zeroconf_close(u.handle, faults)
  IN [raised |-> FALSE, zeroconfs |-> [zcs EXCEPT ![reg.zeroconf] = c.handle]]

\* a call of mdns_registration.close() by the holder of the registration
CloseCall ==
  /\ pc = "closing"
  /\ close_calls < MaxCloseCalls
  /\ ~close_raised
  /\ LET r == close(mdns_registration, zeroconfs, close_faults) IN
     /\ zeroconfs' = r.zeroconfs
     /\ close_raised' = r.raised
     /\ close_calls' = close_calls + 1
     /\ after_first_close' = IF close_calls = 0 THEN r.zeroconfs ELSE after_first_close
  /\ UNCHANGED <<envVars, scanVars, electVars, network_url, mdns_registration,
                 server_thread, clipboard_thread, local_ip, atexit_handlers, waitVars,
                 ui, pc, exit_cause, close_faults, probeVars, discoverVars, fileVars>>

\* the same call made by the exit handler of line 397, which ends the process
AtexitClose ==
  /\ pc = "closing"
  /\ atexit_handlers # <<>>
  /\ ~close_raised
  /\ LET r == close(mdns_registration, zeroconfs, close_faults) IN
     /\ zeroconfs' = r.zeroconfs
     /\ close_raised' = r.raised
     /\ close_calls' = close_calls + 1
     /\ after_first_close' = IF close_calls = 0 THEN r.zeroconfs ELSE after_first_close
  /\ pc' = "exited"
  /\ exit_cause' = "atexit"
  /\ UNCHANGED <<envVars, scanVars, electVars, network_url, mdns_registration,
                 server_thread, clipboard_thread, local_ip, atexit_handlers, waitVars,
                 ui, close_faults, probeVars, discoverVars, fileVars>>

CloseIdle ==
  /\ close_faults = Healthy
  /\ close_calls = 0
  /\ close_raised = FALSE
  /\ after_first_close = <<>>

\* ------------------------------------------------------ try_direct_connection alone
\* what the network does with the status query: no connection, no answer within
\* the timeout, an answer that is no HTTP response, or a response with a status
NetworkEvents ==
  {[kind |-> k, status |-> 0] : k \in {"refused", "timeout", "malformed"}}
  \cup {[kind |-> "response", status |-> st] : st \in {200, 201, 204, 404, 500}}

\* urllib.request.urlopen: raises unless a response with a 2xx status arrived
urlopen(answer) ==
  IF answer.kind = "response" /\ answer.status \in 200..299
  THEN [raises |-> FALSE, status |-> answer.status]
  ELSE [raises |-> TRUE, status |-> 0]

\* lines 148-155 as a call: the value returned and whether the call raised
probe(host, port, timeout, answer) ==
  [raised |-> FALSE, value |-> try_direct_connection(urlopen(answer))]

ProbeCall ==
  /\ pc = "probing"
  /\ probe_result' = probe(probe_call.host, probe_call.port, probe_call.timeout,
                           probe_call.event)
  /\ pc' = "probed"
  /\ UNCHANGED <<envVars, scanVars, electVars, network_url, hostVars, waitVars, ui,
                 exit_cause, closeVars, probe_call, discoverVars, fileVars>>

ProbeIdle ==
  /\ probe_call = None
  /\ probe_result = None

\* ------------------------------------------------------ discover_existing_service
\* the records a host can advertise: two hosts with an address, one record that
\* resolves without an address
AdvertisedServices ==
  {[name |-> "123toMe-a", addresses |-> <<ServerAddress(50)>>, port |-> PORT],
   [name |-> "123toMe-b", addresses |-> <<ServerAddress(70), ServerAddress(1)>>,
    port |-> PORT + 1],
   [name |-> "123toMe-c", addresses |-> <<>>, port |-> PORT]}

\* lines 93-106: the library check, the session, found and the event
DiscoverStart ==
  /\ pc = "discover"
  /\ \E session_ok \in BOOLEAN :
       IF zeroconf_available /\ session_ok
       THEN /\ zeroconfs' = Append(zeroconfs, [state |-> "open", services |-> {}])
            /\ found' = None
            /\ event' = FALSE
            /\ pc' = "d_browser"
            /\ d_result' = d_result
       ELSE /\ d_result' = None
            /\ pc' = "d_returned"
            /\ UNCHANGED <<zeroconfs, found, event>>
  /\ UNCHANGED <<envVars, scanVars, electVars, network_url, mdns_registration,
                 server_thread, clipboard_thread, local_ip, atexit_handlers, waitVars,
                 ui, exit_cause, closeVars, probeVars, fileVars, advertised, announced,
                 browser, timed_out, resolved>>

\* lines 128-130 and, when ServiceBrowser raises, lines 134-143
BrowserStart ==
  /\ pc = "d_browser"
  /\ \E browser_ok \in BOOLEAN :
       IF browser_ok
       THEN /\ browser' = "started"
            /\ pc' = "d_wait"
            /\ UNCHANGED <<zeroconfs, d_result>>
       ELSE /\ zeroconfs' = [zeroconfs EXCEPT ![Len(zeroconfs)] =
                               zeroconf_close(@, Healthy).handle]
            /\ d_result' = found
            /\ pc' = "d_returned"
            /\ browser' = browser
  /\ UNCHANGED <<envVars, scanVars, electVars, network_url, mdns_registration,
                 server_thread, clipboard_thread, local_ip, atexit_handlers, waitVars,
                 ui, exit_cause, closeVars, probeVars, fileVars, advertised, announced, found,
                 event, timed_out, resolved>>

\* lines 109-120: the listener callback, on the browser's thread, once for a name;
\* get_service_info may fail to resolve the record
AddService ==
  /\ browser = "started"
  /\ pc \in {"d_wait", "d_cancel"}
  /\ \E svc \in advertised, info_ok \in BOOLEAN :
       /\ svc.name \notin announced
       /\ announced' = announced \cup {svc.name}
       /\ IF info_ok /\ svc.addresses # <<>>
          THEN /\ found' = MdnsService(svc.name, svc.addresses[1], svc.port)
               /\ event' = TRUE
               /\ resolved' = Append(resolved,
                                [record |-> found', late |-> pc = "d_cancel" /\ timed_out])
          ELSE UNCHANGED <<found, event, resolved>>
  /\ UNCHANGED <<envVars, scanVars, electVars, network_url, hostVars, waitVars, ui,
                 exit_cause, closeVars, probeVars, fileVars, pc, advertised, browser,
                 timed_out,
                 d_result>>

\* line 131: event.wait(timeout) returns because the event is set or because the
\* timeout elapsed, or raises, which skips the cancel (lines 134-143)
WaitReturns ==
  /\ pc = "d_wait"
  /\ \E how \in {"returns", "raises"}, stops \in BOOLEAN :
       IF how = "returns"
       THEN /\ timed_out' = ~event
            /\ pc' = "d_cancel"
            /\ UNCHANGED <<zeroconfs, browser, d_result>>
       ELSE /\ zeroconfs' = [zeroconfs EXCEPT ![Len(zeroconfs)] =
                               zeroconf_close(@, Healthy).handle]
            /\ browser' = IF stops THEN "stopped" ELSE browser
            /\ d_result' = found
            /\ pc' = "d_returned"
            /\ timed_out' = timed_out
  /\ UNCHANGED <<envVars, scanVars, electVars, network_url, mdns_registration,
                 server_thread, clipboard_thread, local_ip, atexit_handlers, waitVars,
                 ui, exit_cause, closeVars, probeVars, fileVars, advertised, announced, found,
                 event, resolved>>

\* lines 132-143: cancel the browser, close the session, return found
DiscoverFinish ==
  /\ pc = "d_cancel"
  /\ browser' = "cancelled"
  /\ zeroconfs' = [zeroconfs EXCEPT ![Len(zeroconfs)] = zeroconf_close(@, Healthy).handle]
  /\ d_result' = found
  /\ pc' = "d_returned"
  /\ UNCHANGED <<envVars, scanVars, electVars, network_url, mdns_registration,
                 server_thread, clipboard_thread, local_ip, atexit_handlers, waitVars,
                 ui, exit_cause, closeVars, probeVars, fileVars, advertised, announced, found,
                 event, timed_out, resolved>>

DiscoverIdle ==
  /\ advertised = {}
  /\ announced = {}
  /\ found = None
  /\ event = FALSE
  /\ browser = "none"
  /\ timed_out = FALSE
  /\ resolved = <<>>
  /\ d_result = None

\* ------------------------------------------------------ the file routes
\* file names are sequences of characters; a path is a directory and a name in it
SHARED_DIR == "SHARED_DIR"
Path(dir, name) == [dir |-> dir, name |-> name]
Letters == {"a", "b", "d", "D"}
Separators(os) == IF os = "nt" THEN {"/", "\\"} ELSE {"/"}

\* what the machine holds before any request: a file next to the shared directory
\* and a subdirectory inside it
SecretBytes == <<7>>
InitialOutside == [q \in {Path("PARENT", <<"a">>)} |-> SecretBytes]
Directories == {Path(SHARED_DIR, <<"d">>)}
EmptyFs == [q \in {} |-> <<>>]
SharedContents ==
  {EmptyFs,
   [q \in {Path(SHARED_DIR, <<"a">>)} |-> <<1>>],
   [q \in {Path(SHARED_DIR, <<"a">>), Path(SHARED_DIR, <<"b">>)} |-> <<2, 3>>]}

Write(files, path, content) ==
  [q \in DOMAIN files \cup {path} |-> IF q = path THEN content ELSE files[q]]
Remove(files, path) == [q \in DOMAIN files \ {path} |-> files[q]]

\* pathlib: the components of a relative path, "" and "." dropped, ".." kept
RECURSIVE components(_, _, _)
components(name, seps, cur) ==
  LET done == IF cur = <<>> \/ cur = <<".">> THEN <<>> ELSE <<cur>>
  IN IF name = <<>> THEN done
     ELSE IF Head(name) \in seps THEN done \o components(Tail(name), seps, <<>>)
     ELSE components(Tail(name), seps, Append(cur, Head(name)))

\* SHARED_DIR / filename, and what the file system has there: a place for a
\* regular file ("file"), a directory ("dir"), or a place in a directory that
\* does not exist ("nodir")
path_join(os, filename) ==
  LET seps == Separators(os)
      drive == os = "nt" /\ Len(filename) >= 2 /\ filename[2] = ":"
               /\ filename[1] \in Letters
      rest == IF drive THEN SubSeq(filename, 3, Len(filename)) ELSE filename
      rooted == rest # <<>> /\ rest[1] \in seps
      comps == components(rest, seps, <<>>)
      at(dir, name) == [kind |-> IF Path(dir, name) \in Directories THEN "dir" ELSE "file",
                        path |-> Path(dir, name)]
      folder(dir) == [kind |-> "dir", path |-> Path(dir, <<>>)]
  IN IF drive THEN (IF comps = <<>> THEN folder("DRIVE") ELSE at("DRIVE", rest))
     ELSE IF rooted THEN (IF comps = <<>> THEN folder("ROOT") ELSE at("ROOT", rest))
     ELSE IF comps = <<>> THEN folder(SHARED_DIR)
     ELSE IF Len(comps) = 1
          THEN (IF comps[1] = <<".", ".">> THEN folder("PARENT")
                ELSE at(SHARED_DIR, comps[1]))
     ELSE IF comps[1] = <<".", ".">>
          THEN (IF Len(comps) = 2 /\ comps[2] # <<".", ".">>
                THEN at("PARENT", comps[2])
                ELSE at("OTHER", rest))
     ELSE [kind |-> "nodir", path |-> Path("OTHER", rest)]

exists(files, loc) ==
  loc.kind = "dir" \/ (loc.kind = "file" /\ loc.path \in DOMAIN files)

\* line 247
sanitize(filename) ==
  [i \in 1..Len(filename) |-> IF filename[i] \in {"/", "\\"} THEN "_" ELSE filename[i]]

\* a file opened for appending
open_ab(old, bytes) == old \o bytes

\* lines 250-251: the file opened with "wb" and the upload copied into it
open_wb(old, bytes) == bytes

\* the order of str on the characters used
ord(c) ==
  CASE c = "." -> 46 [] c = "/" -> 47 [] c = ":" -> 58 [] c = "D" -> 68
    [] c = "\\" -> 92 [] c = "_" -> 95 [] c = "a" -> 97 [] c = "b" -> 98
    [] c = "d" -> 100

RECURSIVE NameLess(_, _)
NameLess(x, y) ==
  IF y = <<>> THEN FALSE
  ELSE IF x = <<>> THEN TRUE
  ELSE IF Head(x) = Head(y) THEN NameLess(Tail(x), Tail(y))
  ELSE ord(Head(x)) < ord(Head(y))

RECURSIVE sorted(_)
sorted(entries) ==
  IF entries = {} THEN <<>>
  ELSE LET first == CHOOSE e \in entries :
                      \A o \in entries \ {e} : NameLess(e.name, o.name)
       IN <<first>> \o sorted(entries \ {first})

\* lines 220-231
get_file_list(files) ==
  sorted({[name |-> q.name, size |-> Len(files[q])] :
            q \in {r \in DOMAIN files : r.dir = SHARED_DIR /\ Head(r.name) # "."}})

Response(status) ==
  [status |-> status, filename |-> <<>>, body |-> <<>>, files |-> <<>>, archive |-> {}]
Request(route, filename, bytes) ==
  [route |-> route, filename |-> filename, bytes |-> bytes]

UploadNames ==
  {<<>>, <<"a">>, <<"b">>, <<"d">>, <<".", "a">>, <<".", ".">>,
   <<".", ".", "/", "a">>, <<"a", "/", "b">>, <<".", ".", "\\", "a">>,
   <<"D", ":", "a">>}
Uploads == {<<1>>, <<2, 3>>}
\* a path parameter is not empty and holds no "/"
PathParameters ==
  {sanitize(f) : f \in UploadNames \ {<<>>}} \cup {<<".">>, <<".", ".", "\\", "a">>}
DiskOutcomes == {"ok", "open_fails", "copy_fails"}

\* lines 233-236
Index ==
  /\ pc = "serving"
  /\ n_requests < MaxRequests
  /\ n_requests' = n_requests + 1
  /\ http_request' = Request("index", <<>>, <<>>)
  /\ http_response' = [Response(200) EXCEPT !.files = get_file_list(fs)]
  /\ UNCHANGED <<envVars, scanVars, electVars, network_url, hostVars, waitVars, ui,
                 exit_cause, closeVars, probeVars, discoverVars, pc, platform, fs,
                 stored>>

\* lines 243-254
UploadFile ==
  /\ pc = "serving"
  /\ n_requests < MaxRequests
  /\ n_requests' = n_requests + 1
  /\ \E name \in UploadNames, bytes \in Uploads, disk \in DiskOutcomes :
       LET filename == sanitize(name)
           loc == path_join(platform, filename)
           old == IF loc.path \in DOMAIN fs THEN fs[loc.path] ELSE <<>>
       IN /\ http_request' = Request("upload", name, bytes)
          /\ IF name = <<>>
             THEN /\ http_response' = Response(400)
                  /\ UNCHANGED <<fs, stored>>
             ELSE IF loc.kind # "file" \/ disk = "open_fails"
             THEN /\ http_response' = Response(500)
                  /\ fs' = fs
                  /\ stored' = Remove(stored, filename)
             ELSE IF disk = "copy_fails"
             THEN /\ http_response' = Response(500)
                  /\ fs' = Write(fs, loc.path, <<>>)
                  /\ stored' = Remove(stored, filename)
             ELSE /\ http_response' = [Response(200) EXCEPT !.filename = filename]
                  /\ fs' = Write(fs, loc.path, open_wb(old, bytes))
                  /\ stored' = Write(stored, filename, bytes)
  /\ UNCHANGED <<envVars, scanVars, electVars, network_url, hostVars, waitVars, ui,
                 exit_cause, closeVars, probeVars, discoverVars, pc, platform>>

\* lines 256-261; FileResponse fails on what is not a regular file
DownloadFile ==
  /\ pc = "serving"
  /\ n_requests < MaxRequests
  /\ n_requests' = n_requests + 1
  /\ \E filename \in PathParameters :
       LET loc == path_join(platform, filename)
       IN /\ http_request' = Request("download", filename, <<>>)
          /\ http_response' =
               IF ~exists(fs, loc) THEN Response(404)
               ELSE IF loc.kind = "dir" THEN Response(500)
               ELSE [Response(200) EXCEPT !.filename = filename, !.body = fs[loc.path]]
  /\ UNCHANGED <<envVars, scanVars, electVars, network_url, hostVars, waitVars, ui,
                 exit_cause, closeVars, probeVars, discoverVars, pc, platform, fs,
                 stored>>

\* lines 263-277
DownloadAllAsZip ==
  /\ pc = "serving"
  /\ n_requests < MaxRequests
  /\ n_requests' = n_requests + 1
  /\ LET files == {q \in DOMAIN fs : q.dir = SHARED_DIR}
     IN /\ http_request' = Request("zip", <<>>, <<>>)
        /\ http_response' =
             IF files = {} THEN Response(404)
             ELSE [Response(200) EXCEPT
                     !.archive = {[name |-> q.name, content |-> fs[q]] : q \in files}]
  /\ UNCHANGED <<envVars, scanVars, electVars, network_url, hostVars, waitVars, ui,
                 exit_cause, closeVars, probeVars, discoverVars, pc, platform, fs,
                 stored>>

\* lines 279-288
DeleteFile ==
  /\ pc = "serving"
  /\ n_requests < MaxRequests
  /\ n_requests' = n_requests + 1
  /\ \E filename \in PathParameters, unlink_ok \in BOOLEAN :
       LET loc == path_join(platform, filename)
       IN /\ http_request' = Request("delete", filename, <<>>)
          /\ stored' = Remove(stored, filename)
          /\ IF ~exists(fs, loc)
             THEN /\ http_response' = Response(404)
                  /\ fs' = fs
             ELSE IF loc.kind = "dir" \/ ~unlink_ok
             THEN /\ http_response' = Response(500)
                  /\ fs' = fs
             ELSE /\ http_response' = Response(200)
                  /\ fs' = Remove(fs, loc.path)
  /\ UNCHANGED <<envVars, scanVars, electVars, network_url, hostVars, waitVars, ui,
                 exit_cause, closeVars, probeVars, discoverVars, pc, platform>>

\* lines 300-333: the clipboard monitor, where pywin32 exists, writes its file
ClipboardName == <<".", "c", "l", "i", "p", "b", "o", "a", "r", "d", "-", "s", "y", "n", "c",
                   ".", "t", "x", "t">>
ClipboardPayload == <<9>>
ClipboardSync ==
  /\ pc = "serving"
  /\ platform = "nt"
  /\ Path(SHARED_DIR, ClipboardName) \notin DOMAIN fs
  /\ fs' = Write(fs, Path(SHARED_DIR, ClipboardName), ClipboardPayload)
  /\ UNCHANGED <<envVars, scanVars, electVars, network_url, hostVars, waitVars, ui,
                 exit_cause, closeVars, probeVars, discoverVars, pc, platform,
                 http_request, http_response, stored, n_requests>>

FilesIdle ==
  /\ platform = "posix"
  /\ fs = EmptyFs
  /\ http_request = Request("none", <<>>, <<>>)
  /\ http_response = Response(0)
  /\ stored = EmptyFs
  /\ n_requests = 0

\* ------------------------------------------------------ process exit
\* how the presentation backends of lines 405-598 end the process: the window is
\* closed (sys.exit of the Qt loop, mainloop returning), the script runs off its
\* end (headless: server_thread.join() returned or there was no thread), the
\* headless join is interrupted, or an exception is left unhandled
ExitCauses(backend) ==
  IF backend = "webbrowser" THEN {"script_end", "interrupted", "error"}
  ELSE {"window_closed", "error"}

\* the interpreter shuts down and runs the handlers given to atexit.register
Exit ==
  /\ pc = "ui"
  /\ \E cause \in ExitCauses(ui) : exit_cause' = cause
  /\ zeroconfs' = IF atexit_handlers # <<>>
                  THEN close(mdns_registration, zeroconfs, close_faults).zeroconfs
                  ELSE zeroconfs
  /\ pc' = "exited"
  /\ UNCHANGED <<envVars, otherVars, scanVars, electVars, network_url,
                 mdns_registration, server_thread, clipboard_thread, local_ip,
                 atexit_handlers, waitVars, ui>>

\* ------------------------------------------------------ specification
Init ==
  /\ zeroconf_available \in BOOLEAN
  /\ servers \in SUBSET ServerOctets
  /\ pc = "start"
  /\ scan_local_ip = <<>>
  /\ prefix = <<>>
  /\ own_last_octet = -1
  /\ idx = 0
  /\ probes = <<>>
  /\ discovered = None
  /\ is_hosting = Unbound
  /\ target_host = <<>>
  /\ target_port = 0
  /\ target_url = <<>>
  /\ network_url = <<>>
  /\ mdns_registration = None
  /\ server_thread = None
  /\ clipboard_thread = None
  /\ ready = Unbound
  /\ elapsed = 0
  /\ grace_slept = FALSE
  /\ local_ip = <<>>
  /\ zeroconfs = <<>>
  /\ atexit_handlers = <<>>
  /\ ui = "none"
  /\ exit_cause = "none"
  /\ CloseIdle
  /\ ProbeIdle
  /\ DiscoverIdle
  /\ FilesIdle

Next ==
  \/ ScanStart
  \/ ScanSkip
  \/ ScanProbe
  \/ ScanExhausted
  \/ Elect
  \/ HostStart
  \/ ClientStart
  \/ WaitAttempt
  \/ WaitDeadline
  \/ Grace
  \/ Advertise
  \/ ClientFinish
  \/ Present
  \/ Exit

Spec == Init /\ [][Next]_vars

\* the script runs on one thread that is never suspended for good
FairSpec == Spec /\ WF_vars(Next)

\* the state of the startup script while another component is looked at alone
ScriptIdle ==
  /\ zeroconf_available \in BOOLEAN
  /\ servers = {}
  /\ scan_local_ip = <<>>
  /\ prefix = <<>>
  /\ own_last_octet = -1
  /\ idx = 0
  /\ probes = <<>>
  /\ discovered = None
  /\ is_hosting = Unbound
  /\ target_host = <<>>
  /\ target_port = 0
  /\ target_url = <<>>
  /\ network_url = <<>>
  /\ server_thread = None
  /\ clipboard_thread = None
  /\ ready = Unbound
  /\ elapsed = 0
  /\ grace_slept = FALSE
  /\ local_ip = <<>>
  /\ ui = "none"
  /\ exit_cause = "none"

\* MdnsRegistration.close on a registration whose session is in any state
CloseInit ==
  /\ ScriptIdle
  /\ pc = "closing"
  /\ \E ip \in {Loopback} \cup {ServerAddress(o) : o \in OwnOctets} :
       mdns_registration = MdnsRegistration(1, ServiceInfo(PORT, ip))
  /\ zeroconfs \in {<<[state |-> "open", services |-> {mdns_registration.info}]>>,
                    <<[state |-> "open", services |-> {}]>>,
                    <<[state |-> "closed", services |-> {}]>>}
  /\ atexit_handlers \in {<<>>, <<"mdns_registration.close">>}
  /\ close_faults \in CloseFaults
  /\ close_calls = 0
  /\ close_raised = FALSE
  /\ after_first_close = <<>>
  /\ ProbeIdle
  /\ DiscoverIdle
  /\ FilesIdle

CloseNext == CloseCall \/ AtexitClose

CloseSpec == CloseInit /\ [][CloseNext]_vars

\* try_direct_connection on any host, port, timeout and network behaviour
ProbeInit ==
  /\ ScriptIdle
  /\ pc = "probing"
  /\ mdns_registration = None
  /\ zeroconfs = <<>>
  /\ atexit_handlers = <<>>
  /\ CloseIdle
  /\ \E host \in {Loopback} \cup {ServerAddress(o) : o \in ServerOctets},
        port \in {PORT, PORT + 1}, timeout \in {ScanTimeout, DefaultProbeTimeout},
        answer \in NetworkEvents :
       probe_call = [host |-> host, port |-> port, timeout |-> timeout, event |-> answer]
  /\ probe_result = None
  /\ DiscoverIdle
  /\ FilesIdle

ProbeNext == ProbeCall

ProbeSpec == ProbeInit /\ [][ProbeNext]_vars

\* discover_existing_service on a network with any of the records advertised
DiscoverInit ==
  /\ ScriptIdle
  /\ pc = "discover"
  /\ mdns_registration = None
  /\ zeroconfs = <<>>
  /\ atexit_handlers = <<>>
  /\ CloseIdle
  /\ ProbeIdle
  /\ advertised \in SUBSET AdvertisedServices
  /\ announced = {}
  /\ found = None
  /\ event = FALSE
  /\ browser = "none"
  /\ timed_out = FALSE
  /\ resolved = <<>>
  /\ d_result = None
  /\ FilesIdle

DiscoverNext ==
  \/ DiscoverStart
  \/ BrowserStart
  \/ AddService
  \/ WaitReturns
  \/ DiscoverFinish

DiscoverSpec == DiscoverInit /\ [][DiscoverNext]_vars

\* the file routes of a running server, on either kind of machine
FilesInit ==
  /\ ScriptIdle
  /\ pc = "serving"
  /\ mdns_registration = None
  /\ zeroconfs = <<>>
  /\ atexit_handlers = <<>>
  /\ CloseIdle
  /\ ProbeIdle
  /\ DiscoverIdle
  /\ platform \in {"posix", "nt"}
  /\ \E shared \in SharedContents :
       fs = [q \in DOMAIN shared \cup DOMAIN InitialOutside |->
               IF q \in DOMAIN shared THEN shared[q] ELSE InitialOutside[q]]
  /\ http_request = Request("none", <<>>, <<>>)
  /\ http_response = Response(0)
  /\ stored = EmptyFs
  /\ n_requests = 0

FilesNext ==
  \/ Index
  \/ UploadFile
  \/ DownloadFile
  \/ DownloadAllAsZip
  \/ DeleteFile
  \/ ClipboardSync

FilesSpec == FilesInit /\ [][FilesNext]_vars

\* ------------------------------------------------------------------ claims
Elected == pc \notin {"start", "scan", "elect"}
BranchDone == pc \in {"present", "ui"}
RunServerThread == [tag |-> "Thread", target |-> "run_server", host |-> HOST, port |-> PORT]

\* C1 (as claimed): when a host on another address of the subnet serves /status
\* during the whole election and this machine has a subnet address, the election
\* ends as a client of a serving host and never as a second host.
C1_ExistingHostIsJoined ==
  (/\ Elected
   /\ scan_local_ip # Loopback
   /\ \E o \in servers : ServerAddress(o) # scan_local_ip)
  => /\ is_hosting = False
     /\ \E o \in servers : target_host = ServerAddress(o)

\* C2: when the scan returned none, the election result is Hosting: the target is
\* the own loopback address and the fixed port, and from the hosting branch on the
\* server thread is started on the fixed port on all interfaces.
C2_NoneFoundMeansHosting ==
  (Elected /\ discovered.tag = "None")
  => /\ is_hosting = True
     /\ target_host = Loopback
     /\ target_port = PORT
     /\ target_url = Url(Loopback, PORT)
     /\ (pc # "branch" => server_thread = RunServerThread)

C2_Witness ==
  /\ pc = "wait"
  /\ discovered.tag = "None"
  /\ Len(probes) = Len(candidates)
  /\ server_thread = RunServerThread

\* C3 (as claimed): after the election and its branch, a Registration is held if
\* and only if the result is Hosting.
C3_RegistrationIffHosting ==
  BranchDone => (mdns_registration.tag # "None" <=> is_hosting = True)

\* C3 (amended): after the election and its branch, a Registration is held only by
\* a Hosting process, and a Hosting process holds one exactly when its service
\* record was published.
C3_RegistrationOnlyIfHostingAndPublished ==
  BranchDone =>
    /\ (mdns_registration.tag # "None" => is_hosting = True)
    /\ (is_hosting = True =>
          (mdns_registration.tag # "None"
             <=> \E h \in DOMAIN zeroconfs : zeroconfs[h].services # {}))
    /\ (mdns_registration.tag # "None" =>
          /\ mdns_registration.zeroconf \in DOMAIN zeroconfs
          /\ zeroconfs[mdns_registration.zeroconf].services = {mdns_registration.info})

C3_Witness ==
  /\ pc = "present"
  /\ is_hosting = True
  /\ mdns_registration.tag = "None"
  /\ ~zeroconf_available

\* C4: every election run reaches the presentation layer with one decision made,
\* and has by then probed no candidate twice, given every probe the scan timeout
\* and run no readiness wait a whole attempt past its deadline.
C4_ElectionTerminates ==
  <>(/\ pc = "present"
     /\ is_hosting \in {True, False}
     /\ \A i, j \in DOMAIN probes : i # j => probes[i].host # probes[j].host
     /\ \A i \in DOMAIN probes : probes[i].timeout = ScanTimeout
     /\ elapsed < WaitTicks + MaxAttemptTicks)

C4_Witness ==
  /\ pc = "present"
  /\ Len(probes) = Len(candidates)
  /\ ready = False
  /\ elapsed >= WaitTicks
  /\ mdns_registration.tag = "None"
  /\ zeroconfs # <<>>

\* C5: a client never has a server thread, a Registration, a discovery session or
\* an exit handler, and its target URL is built from the discovered host and port.
C5_ClientStartsNothing ==
  is_hosting = False =>
    /\ server_thread.tag = "None"
    /\ clipboard_thread.tag = "None"
    /\ mdns_registration.tag = "None"
    /\ zeroconfs = <<>>
    /\ atexit_handlers = <<>>
    /\ target_url = Url(discovered.host, discovered.port)

C5_Witness ==
  /\ pc = "ui"
  /\ is_hosting = False
  /\ target_url = Url(ServerAddress(50), PORT)

\* C6: once the election has bound the role and the target, no later step changes
\* them or the discovered record; a client's target is the host and port of the
\* record the scan returned, which is the address of its last probe.
C6_RoleAndTargetFixed ==
  /\ [][is_hosting # Unbound =>
          /\ is_hosting' = is_hosting
          /\ target_host' = target_host
          /\ target_port' = target_port
          /\ target_url' = target_url
          /\ discovered' = discovered]_vars
  /\ [](is_hosting = False =>
          /\ target_host = discovered.host
          /\ target_port = discovered.port
          /\ target_host = probes[Len(probes)].host
          /\ target_port = probes[Len(probes)].port)

C6_Witness ==
  /\ pc = "ui"
  /\ is_hosting = False
  /\ ready = False
  /\ target_host = ServerAddress(1)

\* C7: the step in which advertise returns none leaves the process Hosting with
\* its server thread as started and goes on to the presentation layer.
C7_AdvertiseFailureKeepsHosting ==
  [][(pc = "waited" /\ is_hosting = True /\ mdns_registration'.tag = "None") =>
       /\ pc' = "present"
       /\ is_hosting' = True
       /\ server_thread' = RunServerThread
       /\ target_url' = target_url]_vars

C7_Witness ==
  /\ pc = "ui"
  /\ is_hosting = True
  /\ mdns_registration.tag = "None"
  /\ zeroconf_available
  /\ zeroconfs # <<>>
  /\ server_thread = RunServerThread

\* C8: the presentation layer is reached only after wait_for_port has returned; if
\* it returned false its deadline had passed and the grace period was slept, and
\* the role and the target URL are those of the election.
C8_PresentAfterWait ==
  BranchDone =>
    /\ ready \in {True, False}
    /\ (ready = False => grace_slept /\ elapsed >= WaitTicks)
    /\ (ready = True => ~grace_slept)
    /\ is_hosting = bool(discovered.tag = "None")
    /\ target_url = IF is_hosting = True THEN Url(Loopback, PORT)
                    ELSE Url(discovered.host, discovered.port)

C8_Witness ==
  /\ pc = "present"
  /\ ready = False
  /\ grace_slept
  /\ is_hosting = False

\* C9: no probe goes to the address whose last octet is this machine's own.
C9_OwnOctetNeverProbed ==
  \A i \in DOMAIN probes :
    /\ probes[i].host # scan_local_ip
    /\ int(split(probes[i].host)[4]) # int(split(scan_local_ip)[4])

C9_Witness ==
  /\ pc = "elect"
  /\ scan_local_ip = ServerAddress(1)
  /\ 1 \in servers
  /\ Len(probes) = Len(candidates) - 1

\* C10: when the local address is the loopback address, by lookup or by fallback,
\* the scan returns none and makes no probe.
C10_LoopbackScansNothing ==
  (pc # "start" /\ scan_local_ip = Loopback)
  => /\ probes = <<>>
     /\ discovered.tag = "None"
     /\ pc # "scan"

C10_Witness ==
  /\ pc = "elect"
  /\ scan_local_ip = Loopback
  /\ servers # {}

\* C11: no close() call raises, whoever makes it and whatever the session's state
\* and failures, and from the second call on the sessions are as the first call
\* left them.
C11_CloseIdempotent ==
  /\ ~close_raised
  /\ (close_calls >= 2 => zeroconfs = after_first_close)

C11_Witness ==
  /\ pc = "exited"
  /\ close_calls >= 3
  /\ close_faults.unregister
  /\ close_faults.close = "raises_closed"
  /\ zeroconfs[1].state = "closed"

\* C14: the probes go to the candidates other than the own octet, in the declared
\* order, at the subnet prefix and the given port; only the last probe can have hit
\* a serving host; the scan returns the record of that host, and returns none
\* exactly when no probed host serves.
Serving(host) == \E o \in servers : host = ServerAddress(o)
Remaining == SelectSeq(candidates, LAMBDA c : c # own_last_octet)

C14_ScanFirstHit ==
  /\ Len(probes) <= Len(Remaining)
  /\ \A i \in DOMAIN probes :
       /\ probes[i].host = prefix \o str(Remaining[i])
       /\ probes[i].port = PORT
       /\ (i < Len(probes) => ~Serving(probes[i].host))
  /\ pc \notin {"start", "scan"} =>
       /\ discovered.tag = "None" <=> \A i \in DOMAIN probes : ~Serving(probes[i].host)
       /\ discovered.tag = "None" =>
            Len(probes) = IF scan_local_ip = Loopback THEN 0 ELSE Len(Remaining)
       /\ discovered.tag # "None" =>
            /\ discovered.host = probes[Len(probes)].host
            /\ discovered.port = PORT
            /\ discovered.name = "WLAN Share (scanned)"

C14_Witness ==
  /\ pc = "elect"
  /\ servers = {50, 70, 200}
  /\ discovered.tag # "None"
  /\ discovered.host = ServerAddress(50)
  /\ Len(probes) > 8

\* C19: when the process has ended holding a Registration, the session of the
\* registration is closed and its service record withdrawn.
C19_ExitClosesRegistration ==
  (pc = "exited" /\ mdns_registration.tag # "None") =>
    /\ zeroconfs[mdns_registration.zeroconf].state = "closed"
    /\ zeroconfs[mdns_registration.zeroconf].services = {}

C19_Witness ==
  /\ pc = "exited"
  /\ mdns_registration.tag # "None"
  /\ ui = "PyQt5"
  /\ exit_cause = "error"
  /\ zeroconfs[mdns_registration.zeroconf].state = "closed"

\* C18: a probe call never raises, and it returns true exactly when a response with
\* status 200 arrived before the timeout; a refused connection, a timeout, a
\* malformed answer and every other status yield false.
C18_ProbeNeverRaises ==
  pc = "probed" =>
    /\ ~probe_result.raised
    /\ probe_result.value \in BOOLEAN
    /\ probe_result.value
         <=> (probe_call.event.kind = "response" /\ probe_call.event.status = 200)

C18_Witness ==
  /\ pc = "probed"
  /\ probe_call.event.kind = "response"
  /\ probe_call.event.status = 204
  /\ probe_result.value = FALSE

\* C15 (as claimed): discover returns the first record that a listener callback
\* resolved with an address and a port.
C15_FirstResolvedWins ==
  (pc = "d_returned" /\ resolved # <<>>) => d_result = resolved[1].record

\* C16 (as claimed): discover returns none, with no session opened, when the
\* library is unavailable or the session cannot be created, and returns none when
\* the wait timed out, whatever was resolved after that.
C16_NoneUnlessResolvedInTime ==
  pc = "d_returned" =>
    /\ (~zeroconf_available => d_result = None /\ zeroconfs = <<>>)
    /\ (zeroconfs = <<>> => d_result = None)
    /\ ((timed_out /\ \A i \in DOMAIN resolved : resolved[i].late) => d_result = None)

\* C17 (as claimed): when discover has returned, every session it opened is closed
\* and the browser, if it was started, is cancelled (by cancel() or, at the
\* library's choice, stopped by the closing session).
C17_DiscoverTearsDown ==
  pc = "d_returned" =>
    /\ \A h \in DOMAIN zeroconfs : zeroconfs[h].state = "closed"
    /\ browser \in {"none", "cancelled", "stopped"}

\* C12 (as claimed): no sequence of uploads creates or modifies a file outside the
\* shared directory; every file there is as it was before the first request.
C12_UploadStaysInside ==
  \A q \in DOMAIN fs :
    q.dir # SHARED_DIR => q \in DOMAIN InitialOutside /\ fs[q] = InitialOutside[q]

\* C13: a download of a name whose last upload succeeded, with no upload or delete
\* of that name since, returns the uploaded bytes; a successful upload leaves
\* exactly its bytes in the file, whatever the file held before.
C13_UploadDownloadRoundTrip ==
  /\ (http_request.route = "download" /\ http_request.filename \in DOMAIN stored)
       => /\ http_response.status = 200
          /\ http_response.body = stored[http_request.filename]
  /\ (http_request.route = "upload" /\ http_response.status = 200)
       => /\ stored[http_response.filename] = http_request.bytes
          /\ fs[path_join(platform, http_response.filename).path] = http_request.bytes

\* an upload replaced the content of an existing file and the download that
\* followed returned the new bytes
C13_Witness ==
  /\ http_request.route = "download"
  /\ http_request.filename = <<"a">>
  /\ <<"a">> \in DOMAIN stored
  /\ http_response.status = 200
  /\ http_response.body = <<2, 3>>
  /\ n_requests = 2

\* C20 (as claimed): /zip answers 404 exactly when the listing is empty, and its
\* archive holds exactly the listed names otherwise.
C20_ZipAgreesWithListing ==
  http_request.route = "zip" =>
    LET listing == get_file_list(fs)
    IN /\ (http_response.status = 404) <=> (listing = <<>>)
       /\ http_response.status = 200 =>
            {e.name : e \in http_response.archive}
              = {listing[i].name : i \in DOMAIN listing}

\* C21: a registration, or a published record, exists only in a Hosting process
\* whose server thread has been started and whose wait on the local port has
\* returned, with success or at its deadline followed by the grace period.
C21_PublishAfterServerAndWait ==
  (\/ mdns_registration.tag # "None"
   \/ \E h \in DOMAIN zeroconfs : zeroconfs[h].services # {})
    => /\ is_hosting = True
       /\ server_thread = RunServerThread
       /\ ready = True \/ (ready = False /\ grace_slept)
       /\ pc \in {"present", "ui", "exited"}

\* a record published after the wait ended at its deadline and the grace period
C21_Witness ==
  /\ mdns_registration.tag # "None"
  /\ zeroconfs[mdns_registration.zeroconf].services # {}
  /\ ready = False
  /\ grace_slept
  /\ pc = "present"

\* C23 (as claimed): every session that advertise opened is, once advertise has
\* returned, owned by the registration it returned or closed.
C23_AdvertiseLeavesNoOpenHandle ==
  \A h \in DOMAIN zeroconfs :
    zeroconfs[h].state = "open"
      => mdns_registration.tag # "None" /\ mdns_registration.zeroconf = h

\* C22 (as claimed): a download or a delete that succeeds has read or removed a
\* regular file that is a direct child of the shared directory, and no file
\* outside the shared directory is ever removed.
C22_PathParameterStaysInside ==
  /\ (http_request.route \in {"download", "delete"} /\ http_response.status = 200)
       => LET loc == path_join(platform, http_request.filename)
          IN loc.kind = "file" /\ loc.path.dir = SHARED_DIR
  /\ \A q \in DOMAIN InitialOutside : q \in DOMAIN fs

====
